---- MODULE Spec2Model ----
(***************************************************************************)
(* Model of shutdownHelper (src/src/main.rs): the delay calculator, the    *)
(* countdown closures spawned by schedule_manual_shutdown and              *)
(* activate_schedules, the manual task registry and the schedule editor.   *)
(*                                                                         *)
(* Time texts are sequences of one-character strings, so that trimming,    *)
(* the regex of save_schedule and chrono's "%H:%M" parser are computed on  *)
(* the characters.  A NaiveTime is its number of seconds since midnight.   *)
(* A reading of Local::now() is a record [wd, sec, frac]: the weekday      *)
(* (Monday = 0), the whole seconds since local midnight, and whether the   *)
(* sub-second part is non-zero.  Daylight-saving transitions are left out: *)
(* every local day has 86400 seconds.                                      *)
(***************************************************************************)
EXTENDS Integers, Sequences, FiniteSets, TLC

VARIABLES
    config_json,      \* contents of the file config.json
    config,           \* ShutdownApp.config.schedule
    schedule_edit,    \* ShutdownApp.schedule_edit
    manual_input,     \* ShutdownApp.manual_input
    manual_status,    \* ShutdownApp.manual_status
    schedule_status,  \* ShutdownApp.schedule_status
    manual_tasks,     \* ShutdownApp.manual_tasks (the registry)
    tasks,            \* the spawned threads, in spawn order
    diag,             \* what the last activation or save printed
    calc              \* inputs and result of one delay computation

vars == <<config_json, config, schedule_edit, manual_input, manual_status,
          schedule_status, manual_tasks, tasks, diag, calc>>

-----------------------------------------------------------------------------
(* Bounds of the model *)

\* the number of threads the program is let to spawn
MaxTasks == 2

-----------------------------------------------------------------------------
(* Program constants *)

\* ChronoDuration::days(1) in seconds
DaySecs == 86400

\* weekday_order of activate_schedules, and the day list of load_config,
\* Default and update
weekday_order ==
    <<"Monday", "Tuesday", "Wednesday", "Thursday", "Friday", "Saturday", "Sunday">>

\* chrono's Display of Weekday: the three-letter names
WeekdayToString(wd) ==
    <<"Mon", "Tue", "Wed", "Thu", "Fri", "Sat", "Sun">>[wd + 1]

\* None of Iterator::position: the index past the end of weekday_order
NoIdx == Len(weekday_order)

\* Iterator::position over weekday_order: the 0-based index, NoIdx for None
position(order, name) ==
    IF \E i \in 1..Len(order) : order[i] = name
    THEN (CHOOSE i \in 1..Len(order) :
              order[i] = name /\ \A j \in 1..(i - 1) : order[j] # name) - 1
    ELSE NoIdx

-----------------------------------------------------------------------------
(* Texts *)

Digits == {"0", "1", "2", "3", "4", "5", "6", "7", "8", "9"}

DigitVal(c) ==
    CASE c = "0" -> 0 [] c = "1" -> 1 [] c = "2" -> 2 [] c = "3" -> 3
      [] c = "4" -> 4 [] c = "5" -> 5 [] c = "6" -> 6 [] c = "7" -> 7
      [] c = "8" -> 8 [] c = "9" -> 9

IsSpace(c) == c = " "

RECURSIVE trim_start(_)
trim_start(s) ==
    IF s # <<>> /\ IsSpace(Head(s)) THEN trim_start(Tail(s)) ELSE s

RECURSIVE trim_end(_)
trim_end(s) ==
    IF s # <<>> /\ IsSpace(s[Len(s)])
    THEN trim_end(SubSeq(s, 1, Len(s) - 1))
    ELSE s

\* str::trim
trim(s) == trim_end(trim_start(s))

\* chrono scan::number(s, 1, 2): one or two leading digits
scan_number(s) ==
    LET n == IF s # <<>> /\ s[1] \in Digits
             THEN (IF Len(s) >= 2 /\ s[2] \in Digits THEN 2 ELSE 1)
             ELSE 0
    IN  [ ok   |-> n > 0,
          val  |-> IF n = 2 THEN 10 * DigitVal(s[1]) + DigitVal(s[2])
                   ELSE IF n = 1 THEN DigitVal(s[1]) ELSE 0,
          rest |-> SubSeq(s, n + 1, Len(s)) ]

\* NaiveTime::parse_from_str(s, "%H:%M"): a numeric item skips leading
\* white space and takes one or two digits, the literal ":" must follow,
\* nothing may remain, and hour and minute must be in range.  The result
\* is [ok, secs]: secs since midnight.
parse_from_str(s) ==
    LET h  == scan_number(trim_start(s))
        r1 == h.rest
        m  == scan_number(trim_start(IF r1 # <<>> THEN Tail(r1) ELSE <<>>))
        ok == /\ h.ok
              /\ r1 # <<>> /\ Head(r1) = ":"
              /\ m.ok
              /\ m.rest = <<>>
              /\ h.val <= 23
              /\ m.val <= 59
    IN  [ ok |-> ok, secs |-> IF ok THEN h.val * 3600 + m.val * 60 ELSE 0 ]

\* Regex ^\d{2}:\d{2}$ of save_schedule
time_regex_is_match(s) ==
    /\ Len(s) = 5
    /\ s[1] \in Digits /\ s[2] \in Digits
    /\ s[3] = ":"
    /\ s[4] \in Digits /\ s[5] \in Digits

-----------------------------------------------------------------------------
(* The delay calculator *)

\* get_delay_seconds with < for <=
get_delay_seconds_strict(target_time, now) ==
    LET t == IF target_time < now.sec THEN target_time + DaySecs ELSE target_time
    IN  t - now.sec - (IF now.frac THEN 1 ELSE 0)

\* get_delay_seconds without the step to the next day
get_delay_seconds_no_rollover(target_time, now) ==
    target_time - now.sec - (IF now.frac /\ target_time > now.sec THEN 1 ELSE 0)

\* get_delay_seconds: target on today's date, one day later when target <= now;
\* num_seconds() drops the sub-second part of the (positive) difference.
get_delay_seconds(target_time, now) ==
    LET t == IF target_time <= now.sec THEN target_time + DaySecs ELSE target_time
    IN  t - now.sec - (IF now.frac THEN 1 ELSE 0)

\* days_to_wait of activate_schedules
days_to_wait(target_index, today_index) ==
    IF target_index >= today_index
    THEN target_index - today_index
    ELSE 7 - today_index + target_index

\* the delay of activate_schedules for one entry, once both indexes are found
schedule_delay(target_time, target_index, today_index, now) ==
    LET delay == get_delay_seconds(target_time, now)
                 + days_to_wait(target_index, today_index) * 24 * 3600
    IN  IF delay < 0 THEN delay + 24 * 3600 ELSE delay

-----------------------------------------------------------------------------
(* The inputs the model draws *)

T_0900 == <<"0", "9", ":", "0", "0">>

T_2500 == <<"2", "5", ":", "0", "0">>

T_905 == <<"9", ":", "0", "5">>

T_pad0900 == <<" ", "0", "9", ":", "0", "0", " ">>

T_empty == <<>>

T_blank == <<" ">>

\* what the user types into the manual field
ManualTexts == {T_pad0900, T_2500}

\* what the user types into a time field of the editor
EditTexts == {T_2500}

\* readings of the clock when a button is pressed: Monday a fraction of a
\* second after 08:55:00, and Sunday 09:00:00 sharp
Nows == { [wd |-> 0, sec |-> 32100, frac |-> TRUE],
          [wd |-> 6, sec |-> 32400, frac |-> FALSE] }

\* the days whose row of the editor the user touches
EditedDays == {"Monday"}

-----------------------------------------------------------------------------
(* config.json *)

\* the default schedule of load_config: every day maps to vec![""]
default_schedule == [d \in {weekday_order[i] : i \in 1..7} |-> <<T_empty>>]

\* a file with two eligible entries (one of them with a second time), an
\* out-of-range time, an unknown label, an empty array and a blank text;
\* the other days are missing
ScheduleA ==
    [d \in {"Monday", "Tuesday", "Wednesday", "Thursday", "Friday", "Funday"} |->
        CASE d = "Monday"    -> <<T_0900>>
          [] d = "Tuesday"   -> <<>>
          [] d = "Wednesday" -> <<T_2500>>
          [] d = "Thursday"  -> <<T_blank>>
          [] d = "Friday"    -> <<T_905, T_0900>>
          [] d = "Funday"    -> <<T_0900>>]

\* a file in which no day is active: an empty array, a blank text, an empty
\* text, and the other days missing
ScheduleInactive ==
    [d \in {"Tuesday", "Thursday", "Saturday"} |->
        CASE d = "Tuesday"  -> <<>>
          [] d = "Thursday" -> <<T_blank>>
          [] d = "Saturday" -> <<T_empty>>]

\* contents of config.json: unreadable, or a schedule
ConfigFiles ==
    { [ok |-> FALSE, schedule |-> default_schedule],
      [ok |-> TRUE,  schedule |-> ScheduleA],
      [ok |-> TRUE,  schedule |-> ScheduleInactive] }

load_config(file) == IF file.ok THEN file.schedule ELSE default_schedule

\* the file after save_config (the write is taken to succeed)
save_config(schedule) == [ok |-> TRUE, schedule |-> schedule]

\* schedule_edit of ShutdownApp::default
default_schedule_edit(schedule) ==
    [d \in {weekday_order[i] : i \in 1..7} |->
        LET has == d \in DOMAIN schedule /\ Len(schedule[d]) >= 1
        IN  [ active |-> has /\ trim(schedule[d][1]) # <<>>,
              time   |-> IF has THEN schedule[d][1] ELSE T_empty ]]

-----------------------------------------------------------------------------
(* Countdown tasks *)

\* first_sleep with the warning lead not taken off the first wait
first_sleep_full_wait(delay) ==
    IF delay > 300
    THEN [secs |-> delay, warn |-> TRUE]
    ELSE [secs |-> delay, warn |-> FALSE]

\* first_sleep with >= for >
first_sleep_warn_at_lead(delay) ==
    IF delay >= 300
    THEN [secs |-> delay - 300, warn |-> TRUE]
    ELSE [secs |-> delay, warn |-> FALSE]

\* the wait that opens a cycle, and whether a warning follows it
first_sleep(delay) ==
    IF delay > 300
    THEN [secs |-> delay - 300, warn |-> TRUE]
    ELSE [secs |-> delay, warn |-> FALSE]

Ev(e, s) == [ev |-> e, secs |-> s]

\* a thread at the head of its closure
new_task(kind, src, delay) ==
    [ kind |-> kind, src |-> src, delay |-> delay, pc |-> "start",
      cycle_delay |-> delay, trace |-> <<>>, rearmed |-> FALSE,
      last_delay |-> 0, last_trace |-> <<>> ]

\* the closure after shutdown_pc(): the one-shot closure returns, the loop
\* of activate_schedules sets delay = 7 * 24 * 3600 and starts over
after_shutdown(t, trace) ==
    IF t.kind = "manual"
    THEN [t EXCEPT !.pc = "done", !.trace = trace]
    ELSE [t EXCEPT !.pc = "start", !.delay = 7 * 24 * 3600,
                   !.cycle_delay = 7 * 24 * 3600, !.trace = <<>>,
                   !.rearmed = TRUE,
                   !.last_delay = t.cycle_delay, !.last_trace = trace]

\* thread::sleep at the head of a cycle
TaskSleep(i) ==
    /\ i \in 1..Len(tasks)
    /\ tasks[i].pc = "start"
    /\ LET t  == tasks[i]
           fs == first_sleep(t.delay)
       IN  tasks' = [tasks EXCEPT ![i] =
               [t EXCEPT !.trace = Append(t.trace, Ev("sleep", fs.secs)),
                         !.pc = IF fs.warn THEN "notify" ELSE "shutdown"]]
    /\ UNCHANGED <<config_json, config, schedule_edit, manual_input, manual_status,
                   schedule_status, manual_tasks, diag, calc>>

\* show_notification: MessageBoxA puts the box up and the thread waits in it
TaskNotify(i) ==
    /\ i \in 1..Len(tasks)
    /\ tasks[i].pc = "notify"
    /\ tasks' = [tasks EXCEPT ![i] =
           [@ EXCEPT !.trace = Append(@, Ev("warn", 0)), !.pc = "boxed"]]
    /\ UNCHANGED <<config_json, config, schedule_edit, manual_input, manual_status,
                   schedule_status, manual_tasks, diag, calc>>

\* the user closes the box: MessageBoxA returns
DismissWarning(i) ==
    /\ i \in 1..Len(tasks)
    /\ tasks[i].pc = "boxed"
    /\ tasks' = [tasks EXCEPT ![i] = [@ EXCEPT !.pc = "sleep_post"]]
    /\ UNCHANGED <<config_json, config, schedule_edit, manual_input, manual_status,
                   schedule_status, manual_tasks, diag, calc>>

\* thread::sleep(300) after the warning
TaskSleepPost(i) ==
    /\ i \in 1..Len(tasks)
    /\ tasks[i].pc = "sleep_post"
    /\ tasks' = [tasks EXCEPT ![i] =
           [@ EXCEPT !.trace = Append(@, Ev("sleep", 300)), !.pc = "shutdown"]]
    /\ UNCHANGED <<config_json, config, schedule_edit, manual_input, manual_status,
                   schedule_status, manual_tasks, diag, calc>>

\* shutdown_pc(), and what the closure does after it
TaskShutdown(i) ==
    /\ i \in 1..Len(tasks)
    /\ tasks[i].pc = "shutdown"
    /\ tasks' = [tasks EXCEPT ![i] =
           after_shutdown(@, Append(@.trace, Ev("shutdown", 0)))]
    /\ UNCHANGED <<config_json, config, schedule_edit, manual_input, manual_status,
                   schedule_status, manual_tasks, diag, calc>>

-----------------------------------------------------------------------------
(* schedule_manual_shutdown *)

Status(kind, delay, text) == [kind |-> kind, delay |-> delay, text |-> text]

\* schedule_manual_shutdown with the registry written before the parse
schedule_manual_shutdown_push_first(input, now, registry, threads) ==
    LET p == parse_from_str(trim(input))
    IN  IF p.ok
        THEN LET delay == get_delay_seconds(p.secs, now)
             IN  [ status   |-> Status("geplant", delay, input),
                   registry |-> Append(registry, <<input, delay>>),
                   threads  |-> Append(threads, new_task("manual", input, delay)) ]
        ELSE [ status   |-> Status("ungueltig", 0, <<>>),
               registry |-> Append(registry, <<input, 0>>),
               threads  |-> threads ]

\* schedule_manual_shutdown with the thread given the time of day for the delay
schedule_manual_shutdown_wrong_capture(input, now, registry, threads) ==
    LET p == parse_from_str(trim(input))
    IN  IF p.ok
        THEN LET delay == get_delay_seconds(p.secs, now)
             IN  [ status   |-> Status("geplant", delay, input),
                   registry |-> Append(registry, <<input, delay>>),
                   threads  |-> Append(threads, new_task("manual", input, p.secs)) ]
        ELSE [ status   |-> Status("ungueltig", 0, <<>>),
               registry |-> registry,
               threads  |-> threads ]

\* schedule_manual_shutdown with the descriptor put at the head of the registry
schedule_manual_shutdown_push_front(input, now, registry, threads) ==
    LET p == parse_from_str(trim(input))
    IN  IF p.ok
        THEN LET delay == get_delay_seconds(p.secs, now)
             IN  [ status   |-> Status("geplant", delay, input),
                   registry |-> <<<<input, delay>>>> \o registry,
                   threads  |-> Append(threads, new_task("manual", input, delay)) ]
        ELSE [ status   |-> Status("ungueltig", 0, <<>>),
               registry |-> registry,
               threads  |-> threads ]

\* the handler on the typed text: the status line, the registry and the
\* threads after it
schedule_manual_shutdown(input, now, registry, threads) ==
    LET p == parse_from_str(trim(input))
    IN  IF p.ok
        THEN LET delay == get_delay_seconds(p.secs, now)
             IN  [ status   |-> Status("geplant", delay, input),
                   registry |-> Append(registry, <<input, delay>>),
                   threads  |-> Append(threads, new_task("manual", input, delay)) ]
        ELSE [ status   |-> Status("ungueltig", 0, <<>>),
               registry |-> registry,
               threads  |-> threads ]

\* the user types a time and presses "Shutdown manuell planen"
ManualClick ==
    \E input \in ManualTexts, now \in Nows :
        LET r == schedule_manual_shutdown(input, now, manual_tasks, tasks)
        IN  /\ Len(r.threads) <= MaxTasks
            /\ manual_input' = input
            /\ manual_status' = r.status
            /\ manual_tasks' = r.registry
            /\ tasks' = r.threads
            /\ UNCHANGED <<config_json, config, schedule_edit, schedule_status,
                           diag, calc>>

-----------------------------------------------------------------------------
(* activate_schedules *)

Outcome(kind, delay) == [kind |-> kind, delay |-> delay]

\* the index of today in weekday_order
today_index_of(now) == position(weekday_order, WeekdayToString(now.wd))

\* activate_entry without the test for an empty text, a text that does not
\* parse taken as midnight, and the day of the clock taken by its index
activate_entry_default_time(day, times, now) ==
    IF Len(times) = 0 THEN Outcome("none", 0)
    ELSE LET p == parse_from_str(times[1])
             target_index == position(weekday_order, day)
         IN  IF target_index = NoIdx THEN Outcome("bad_day", 0)
             ELSE Outcome("spawn",
                      schedule_delay(p.secs, target_index, now.wd, now))

\* one pass of the loop body: nothing, a diagnostic, or a spawn with a delay
activate_entry(day, times, now) ==
    IF Len(times) = 0 THEN Outcome("none", 0)
    ELSE IF trim(times[1]) = <<>> THEN Outcome("none", 0)
    ELSE LET p == parse_from_str(times[1])
         IN  IF ~p.ok THEN Outcome("bad_time", 0)
             ELSE LET today_index == today_index_of(now)
                  IN  IF today_index = NoIdx THEN Outcome("bad_today", 0)
                      ELSE LET target_index == position(weekday_order, day)
                           IN  IF target_index = NoIdx THEN Outcome("bad_day", 0)
                               ELSE Outcome("spawn",
                                        schedule_delay(p.secs, target_index,
                                                       today_index, now))

\* the outcome of every entry of the schedule
activate_schedules(schedule, now) ==
    [d \in DOMAIN schedule |-> activate_entry(d, schedule[d], now)]

Spawned(res) == {d \in DOMAIN res : res[d].kind = "spawn"}

Diagnostics(res) ==
    {<<d, res[d].kind>> : d \in {x \in DOMAIN res :
                                   res[x].kind \in {"bad_time", "bad_today", "bad_day"}}}

\* the orders in which a HashMap may hand out the keys in S
Orderings(S) ==
    {f \in [1..Cardinality(S) -> S] :
        \A i, j \in 1..Cardinality(S) : i # j => f[i] # f[j]}

\* the threads after one call of activate_schedules that visits the spawning
\* entries in the order ord
spawn_all(threads, res, ord) ==
    threads \o [i \in 1..Len(ord) |-> new_task("recurring", ord[i], res[ord[i]].delay)]

\* the loop of activate_schedules on schedule: threads and output
Activate(schedule, now, printed) ==
    LET res == activate_schedules(schedule, now)
    IN  /\ Len(tasks) + Cardinality(Spawned(res)) <= MaxTasks
        /\ \E ord \in Orderings(Spawned(res)) : tasks' = spawn_all(tasks, res, ord)
        /\ diag' = printed \cup Diagnostics(res)

\* "Zeitplan neu laden und aktivieren"
ReloadClick ==
    \E now \in Nows :
        /\ config' = load_config(config_json)
        /\ Activate(config', now, {})
        /\ schedule_status' = "aktiviert"
        /\ UNCHANGED <<config_json, schedule_edit, manual_input, manual_status,
                       manual_tasks, calc>>

-----------------------------------------------------------------------------
(* The editor and save_schedule *)

\* the user ticks or unticks the checkbox of one day's row
ToggleActive ==
    \E day \in EditedDays :
        /\ schedule_edit' = [schedule_edit EXCEPT ![day].active = ~@]
        /\ UNCHANGED <<config_json, config, manual_input, manual_status,
                       schedule_status, manual_tasks, tasks, diag, calc>>

\* the user types into the time field of one day's row
TypeTime ==
    \E day \in EditedDays, time \in EditTexts :
        /\ schedule_edit' = [schedule_edit EXCEPT ![day].time = time]
        /\ UNCHANGED <<config_json, config, manual_input, manual_status,
                       schedule_status, manual_tasks, tasks, diag, calc>>

\* what save_schedule stores for one row of the editor
saved_entry(e) ==
    IF e.active /\ time_regex_is_match(trim(e.time))
    THEN <<trim(e.time)>>
    ELSE <<T_empty>>

\* the schedule after the loop of save_schedule
save_schedule(schedule, edit) ==
    [d \in DOMAIN schedule \cup DOMAIN edit |->
        IF d \in DOMAIN edit THEN saved_entry(edit[d]) ELSE schedule[d]]

SaveDiagnostics(edit) ==
    {<<d, "bad_format">> : d \in {x \in DOMAIN edit :
         edit[x].active /\ ~time_regex_is_match(trim(edit[x].time))}}

\* "Zeitplan speichern"
SaveClick ==
    \E now \in Nows :
        /\ config' = save_schedule(config, schedule_edit)
        /\ config_json' = save_config(config')
        /\ Activate(config', now, SaveDiagnostics(schedule_edit))
        /\ schedule_status' = "gespeichert"
        /\ UNCHANGED <<schedule_edit, manual_input, manual_status, manual_tasks, calc>>

-----------------------------------------------------------------------------
(* The program *)

CalcIdle == [phase |-> "idle", time |-> 0, target |-> 0, today |-> 0,
             now |-> [wd |-> 0, sec |-> 0, frac |-> FALSE], delay |-> 0]

\* main: ShutdownApp::default() on whatever config.json holds
Init ==
    /\ config_json \in ConfigFiles
    /\ config = load_config(config_json)
    /\ schedule_edit = default_schedule_edit(config)
    /\ manual_input = <<>>
    /\ manual_status = Status("kein", 0, <<>>)
    /\ schedule_status = ""
    /\ manual_tasks = <<>>
    /\ tasks = <<>>
    /\ diag = {}
    /\ calc = CalcIdle

TaskIds == 1..MaxTasks

Next ==
    \/ ManualClick
    \/ ReloadClick
    \/ ToggleActive
    \/ TypeTime
    \/ SaveClick
    \/ \E i \in TaskIds : TaskSleep(i)
    \/ \E i \in TaskIds : TaskNotify(i)
    \/ \E i \in TaskIds : DismissWarning(i)
    \/ \E i \in TaskIds : TaskSleepPost(i)
    \/ \E i \in TaskIds : TaskShutdown(i)

Spec == Init /\ [][Next]_vars

\* a thread runs whenever it can; nothing makes the user close a warning
ThreadStep(i) ==
    TaskSleep(i) \/ TaskNotify(i) \/ TaskSleepPost(i) \/ TaskShutdown(i)

LiveSpec == Spec /\ \A i \in TaskIds : WF_vars(ThreadStep(i))

-----------------------------------------------------------------------------
(* The countdown closures on their own: threads as thread::spawn leaves     *)
(* them, one-shot or looping, with the delay they captured                  *)

T_0000 == <<"0", "0", ":", "0", "0">>

T_2359 == <<"2", "3", ":", "5", "9">>

\* delays a closure may capture: none, under, at and just over the warning
\* lead, a day, a week, and the largest sum of activate_schedules
TaskDelays == {0, 200, 300, 301, 86400, 7 * 24 * 3600, 7 * 24 * 3600 + 86399}

SpawnedTasks ==
    {new_task("manual", T_0900, d) : d \in TaskDelays}
        \cup {new_task("recurring", "Monday", d) : d \in TaskDelays}

TaskInit ==
    /\ config_json = [ok |-> FALSE, schedule |-> default_schedule]
    /\ config = load_config(config_json)
    /\ schedule_edit = default_schedule_edit(config)
    /\ manual_input = <<>>
    /\ manual_status = Status("kein", 0, <<>>)
    /\ schedule_status = ""
    /\ manual_tasks = <<>>
    /\ \E n \in 1..MaxTasks : tasks \in [1..n -> SpawnedTasks]
    /\ diag = {}
    /\ calc = CalcIdle

TaskNext ==
    \/ \E i \in TaskIds : TaskSleep(i)
    \/ \E i \in TaskIds : TaskNotify(i)
    \/ \E i \in TaskIds : DismissWarning(i)
    \/ \E i \in TaskIds : TaskSleepPost(i)
    \/ \E i \in TaskIds : TaskShutdown(i)

TaskSpec == TaskInit /\ [][TaskNext]_vars

LiveTaskSpec == TaskSpec /\ \A i \in TaskIds : WF_vars(ThreadStep(i))

-----------------------------------------------------------------------------
(* The delay of activate_schedules on its own: lines 182-190 applied to a   *)
(* parsed time, the index of the entry's day and a reading of the clock,    *)
(* with the index of today taken from that reading's weekday                *)

CalcTexts == {T_0000, T_0900, T_2359}

\* midnight, 08:59:59, 09:00:00, 10:00:00 and the last second of the day
CalcSecs == {0, 32399, 32400, 36000, 86399}

CalcNows == [wd : 0..6, sec : CalcSecs, frac : BOOLEAN]

CalcInit ==
    /\ config_json = [ok |-> FALSE, schedule |-> default_schedule]
    /\ config = load_config(config_json)
    /\ schedule_edit = default_schedule_edit(config)
    /\ manual_input = <<>>
    /\ manual_status = Status("kein", 0, <<>>)
    /\ schedule_status = ""
    /\ manual_tasks = <<>>
    /\ tasks = <<>>
    /\ diag = {}
    /\ \E txt \in CalcTexts, day \in 0..6, now \in CalcNows :
           calc = [phase |-> "input", time |-> parse_from_str(txt).secs,
                   target |-> day, today |-> now.wd, now |-> now, delay |-> 0]

ComputeDelay ==
    /\ calc.phase = "input"
    /\ calc' = [calc EXCEPT
                   !.phase = "done",
                   !.delay = schedule_delay(calc.time, calc.target, calc.today,
                                            calc.now)]
    /\ UNCHANGED <<config_json, config, schedule_edit, manual_input, manual_status,
                   schedule_status, manual_tasks, tasks, diag>>

CalcNext == ComputeDelay

CalcSpec == CalcInit /\ [][CalcNext]_vars

-----------------------------------------------------------------------------
(* Claims *)

\* C1: an entry for today's weekday whose time of day has passed
\* (target <= now) gets a delay in [6*86400, 7*86400), the occurrence one
\* week out.
C1_SameDayPassedIsNextWeek ==
    (calc.phase = "done" /\ calc.target = calc.today /\ calc.time <= calc.now.sec)
        => (6 * 86400 <= calc.delay /\ calc.delay < 7 * 86400)

\* the difference target - now on the same day, whole seconds towards zero
SameDayDifference(time, now) ==
    IF time > now.sec
    THEN time - now.sec - (IF now.frac THEN 1 ELSE 0)
    ELSE time - now.sec

\* C2: an entry for another weekday gets days_to_wait * 86400 plus the plain
\* same-day difference of the times of day, with no next-day rollover.
C2_OtherDayNoRollover ==
    (calc.phase = "done" /\ calc.target # calc.today)
        => calc.delay = ((calc.target - calc.today) % 7) * 86400
                            + SameDayDifference(calc.time, calc.now)

\* the weekdays of a schedule whose first entry is a non-empty, parseable time
Eligible(schedule) ==
    {d \in DOMAIN schedule :
        /\ \E i \in 1..7 : weekday_order[i] = d
        /\ Len(schedule[d]) >= 1
        /\ trim(schedule[d][1]) # <<>>
        /\ parse_from_str(schedule[d][1]).ok}

\* the threads a step has added
NewTasks == {i \in 1..Len(tasks') : i > Len(tasks)}

\* C3: one call of activate_schedules spawns exactly one recurring task for
\* every weekday whose first entry is a non-empty, parseable time.
C3_OneTaskPerEligibleEntry ==
    [][ReloadClick =>
          /\ Cardinality(NewTasks) = Cardinality(Eligible(config'))
          /\ \A d \in Eligible(config') :
                 \E i \in NewTasks : /\ tasks'[i].kind = "recurring"
                                     /\ tasks'[i].src = d]_vars

IsPrefix(a, b) == Len(a) <= Len(b) /\ SubSeq(b, 1, Len(a)) = a

\* the events of a cycle that starts with a delay d over the warning lead
LongCycle(d) ==
    <<Ev("sleep", d - 300), Ev("warn", 0), Ev("sleep", 300), Ev("shutdown", 0)>>

\* the events of a cycle that starts with a delay d of at most the warning lead
ShortCycle(d) == <<Ev("sleep", d), Ev("shutdown", 0)>>

\* C4: a cycle that starts with delay > 300 is: wait delay - 300, one
\* warning, wait 300, one shutdown, in this order and nothing else; a cycle
\* under way has done a prefix of it.
C4_LongCycleWarnsThenShutsDown ==
    \A i \in 1..Len(tasks) :
        LET t == tasks[i]
        IN  /\ t.cycle_delay > 300 =>
                   /\ IsPrefix(t.trace, LongCycle(t.cycle_delay))
                   /\ t.pc = "done" => t.trace = LongCycle(t.cycle_delay)
            /\ (t.rearmed /\ t.last_delay > 300) =>
                   t.last_trace = LongCycle(t.last_delay)

C4_Witness ==
    \E i, j \in 1..Len(tasks) :
        /\ tasks[i].kind = "manual" /\ tasks[i].pc = "done"
        /\ tasks[i].cycle_delay = 301
        /\ tasks[i].trace = LongCycle(301)
        /\ tasks[j].kind = "recurring" /\ tasks[j].rearmed
        /\ tasks[j].last_delay = 86400
        /\ tasks[j].last_trace = LongCycle(86400)

\* C5: a cycle that starts with delay <= 300 is: wait the whole delay, one
\* shutdown, and no warning; a cycle under way has done a prefix of it.
C5_ShortCycleShutsDownWithoutWarning ==
    \A i \in 1..Len(tasks) :
        LET t == tasks[i]
        IN  /\ t.cycle_delay <= 300 =>
                   /\ IsPrefix(t.trace, ShortCycle(t.cycle_delay))
                   /\ t.pc = "done" => t.trace = ShortCycle(t.cycle_delay)
                   /\ \A k \in 1..Len(t.trace) : t.trace[k].ev # "warn"
            /\ (t.rearmed /\ t.last_delay <= 300) =>
                   t.last_trace = ShortCycle(t.last_delay)

C5_Witness ==
    \E i, j \in 1..Len(tasks) :
        /\ tasks[i].kind = "manual" /\ tasks[i].pc = "done"
        /\ tasks[i].cycle_delay = 300
        /\ tasks[i].trace = ShortCycle(300)
        /\ tasks[j].kind = "recurring" /\ tasks[j].rearmed
        /\ tasks[j].last_delay = 0
        /\ tasks[j].last_trace = ShortCycle(0)

\* the number of shutdown events in a trace
RECURSIVE Shutdowns(_)
Shutdowns(trace) ==
    IF trace = <<>> THEN 0
    ELSE (IF Head(trace).ev = "shutdown" THEN 1 ELSE 0) + Shutdowns(Tail(trace))

IsRecurring(i) == i \in 1..Len(tasks) /\ tasks[i].kind = "recurring"

IsManual(i) == i \in 1..Len(tasks) /\ tasks[i].kind = "manual"

\* a recurring task that has re-armed holds 7 * 86400 and is in a cycle of
\* wait 7 * 86400 - 300, warning, wait 300, shutdown; it never ends
C6_RearmedCycles ==
    \A i \in 1..Len(tasks) :
        tasks[i].kind = "recurring" =>
            /\ tasks[i].pc # "done"
            /\ tasks[i].rearmed =>
                   /\ tasks[i].cycle_delay = 7 * 86400
                   /\ IsPrefix(tasks[i].trace, LongCycle(7 * 86400))
                   /\ Shutdowns(tasks[i].last_trace) = 1

\* C6: a recurring task sets its delay to 7 * 86400 after every shutdown and
\* starts a new cycle of wait, warning, wait 300, shutdown; it never ends,
\* and with the threads scheduled fairly it invokes the shutdown callback
\* again and again.
C6_RecurringShutsDownForever ==
    /\ []C6_RearmedCycles
    /\ \A i \in TaskIds :
           /\ IsRecurring(i) ~> (IsRecurring(i) /\ tasks[i].pc = "shutdown")
           /\ IsRecurring(i) ~> (IsRecurring(i) /\ tasks[i].pc = "start"
                                     /\ tasks[i].rearmed)

\* a one-shot task has invoked the shutdown callback at most once, and
\* exactly once when it has ended
C7_OneShutdown ==
    \A i \in 1..Len(tasks) :
        tasks[i].kind = "manual" =>
            /\ Shutdowns(tasks[i].trace) <= 1
            /\ ~tasks[i].rearmed
            /\ tasks[i].pc = "done" => Shutdowns(tasks[i].trace) = 1

\* C7: a one-shot task invokes the shutdown callback exactly once and then
\* ends; with the threads scheduled fairly every one-shot task ends, and an
\* ended task stays as it is.
C7_ManualTaskShutsDownOnceAndEnds ==
    /\ []C7_OneShutdown
    /\ [][\A i \in 1..Len(tasks) :
              (tasks[i].kind = "manual" /\ tasks[i].pc = "done")
                  => tasks'[i] = tasks[i]]_vars
    /\ \A i \in TaskIds : IsManual(i) ~> (IsManual(i) /\ tasks[i].pc = "done")

\* C8: schedule_manual_shutdown on a text that does not parse reports the
\* error, spawns nothing and leaves the registry as it was.
C8_BadTextSchedulesNothing ==
    [][(ManualClick /\ ~parse_from_str(trim(manual_input')).ok) =>
          /\ manual_status'.kind = "ungueltig"
          /\ tasks' = tasks
          /\ manual_tasks' = manual_tasks]_vars

C8_Witness ==
    /\ manual_input = T_2500
    /\ manual_status.kind = "ungueltig"
    /\ Len(manual_tasks) = 1
    /\ Len(tasks) = 1

\* C9: schedule_manual_shutdown on a valid text appends exactly one
\* descriptor, the text and the computed delay, and spawns exactly one
\* one-shot task that holds the recorded delay.
C9_GoodTextRecordsAndSpawnsOnce ==
    [][(ManualClick /\ parse_from_str(trim(manual_input')).ok) =>
          \E now \in Nows :
              LET delay == get_delay_seconds(
                               parse_from_str(trim(manual_input')).secs, now)
              IN  /\ manual_tasks' = Append(manual_tasks, <<manual_input', delay>>)
                  /\ Len(tasks') = Len(tasks) + 1
                  /\ SubSeq(tasks', 1, Len(tasks)) = tasks
                  /\ tasks'[Len(tasks')].kind = "manual"
                  /\ tasks'[Len(tasks')].pc = "start"
                  /\ tasks'[Len(tasks')].delay = delay
                  /\ manual_tasks'[Len(manual_tasks')][2]
                         = tasks'[Len(tasks')].delay]_vars

C9_Witness ==
    /\ manual_input = T_pad0900
    /\ manual_status.kind = "geplant"
    /\ Len(manual_tasks) = 2
    /\ manual_tasks[2] = <<T_pad0900, 86400>>
    /\ Len(tasks) = 2
    /\ tasks[2].kind = "manual" /\ tasks[2].delay = 86400 /\ tasks[2].pc = "start"

\* the entries of a schedule that cannot be scheduled: a time text that does
\* not parse, or a label that is not one of the seven weekdays
Unschedulable(schedule) ==
    {d \in DOMAIN schedule :
        /\ Len(schedule[d]) >= 1
        /\ trim(schedule[d][1]) # <<>>
        /\ \/ ~parse_from_str(schedule[d][1]).ok
           \/ \A i \in 1..7 : weekday_order[i] # d}

\* C10: an entry that cannot be scheduled is skipped and does not abort the
\* activation: every eligible entry of the same schedule still gets its
\* recurring task.
C10_SkippedEntryLeavesTheOthersScheduled ==
    [][((ReloadClick \/ SaveClick) /\ Unschedulable(config') # {}) =>
          /\ \A d \in Unschedulable(config') :
                 \A i \in NewTasks : tasks'[i].src # d
          /\ \A d \in Eligible(config') :
                 \E i \in NewTasks : /\ tasks'[i].kind = "recurring"
                                     /\ tasks'[i].src = d]_vars


\* C11: an activation (reload or save) leaves the earlier threads as they
\* are and adds one fresh recurring task per eligible entry, so that k
\* activations of a schedule with n eligible entries leave k * n of them.
C11_ReactivationAddsATaskPerEntry ==
    [][(ReloadClick \/ SaveClick) =>
          /\ SubSeq(tasks', 1, Len(tasks)) = tasks
          /\ Len(tasks') = Len(tasks) + Cardinality(Eligible(config'))]_vars


\* the entries of a schedule with a non-empty first time text
ActiveEntries(schedule) ==
    {d \in DOMAIN schedule :
        Len(schedule[d]) >= 1 /\ trim(schedule[d][1]) # <<>>}

\* the threads that have not ended
ActiveTasks == {i \in 1..Len(tasks) : tasks[i].pc # "done"}

\* C12: the number of active countdown tasks is the number of active entries
\* of the current schedule plus the number of unfinished manual tasks.
C12_TasksMatchEntriesPlusManual ==
    Cardinality(ActiveTasks)
        = Cardinality(ActiveEntries(config))
              + Cardinality({i \in ActiveTasks : tasks[i].kind = "manual"})


\* no weekday of the schedule has a non-empty first time text
AllInactive(schedule) ==
    \A i \in 1..7 :
        \/ weekday_order[i] \notin DOMAIN schedule
        \/ Len(schedule[weekday_order[i]]) = 0
        \/ trim(schedule[weekday_order[i]][1]) = <<>>

\* C13: activating a schedule whose seven entries are all inactive (empty or
\* missing) spawns no countdown task and adds nothing to the registry.
C13_InactiveScheduleSpawnsNothing ==
    [][((ReloadClick \/ SaveClick) /\ AllInactive(config')) =>
          /\ tasks' = tasks
          /\ manual_tasks' = manual_tasks]_vars

C13_Witness ==
    /\ schedule_status = "aktiviert"
    /\ config = ScheduleInactive
    /\ AllInactive(config)
    /\ Len(tasks) = 1
    /\ Len(manual_tasks) = 1


\* C14: the registry is an append-only log: every step leaves it as it is or
\* appends one descriptor at its end; nothing is removed, reordered or
\* changed, whatever the tasks do.
C14_RegistryAppendOnly ==
    [][/\ IsPrefix(manual_tasks, manual_tasks')
       /\ Len(manual_tasks') <= Len(manual_tasks) + 1
       /\ ~ManualClick => manual_tasks' = manual_tasks]_vars

C14_Witness ==
    /\ Len(manual_tasks) = 2
    /\ manual_tasks[1] = <<T_pad0900, 299>>
    /\ manual_tasks[2] = <<T_pad0900, 86400>>
    /\ tasks[1].pc = "done"
    /\ schedule_status = "gespeichert"


-----------------------------------------------------------------------------
(* The delays on their way into a closure: get_delay_seconds as             *)
(* schedule_manual_shutdown calls it, or the sum of activate_schedules,     *)
(* then thread::spawn with the result and the closure's run                 *)

\* let delay = get_delay_seconds(&target_time) of schedule_manual_shutdown
ComputeSingle ==
    /\ calc.phase = "input"
    /\ calc' = [calc EXCEPT !.phase = "single",
                            !.delay = get_delay_seconds(calc.time, calc.now)]
    /\ UNCHANGED <<config_json, config, schedule_edit, manual_input, manual_status,
                   schedule_status, manual_tasks, tasks, diag>>

\* thread::spawn with the computed delay: the one-shot closure after
\* get_delay_seconds, the loop after the sum of activate_schedules
SpawnComputed ==
    /\ calc.phase \in {"single", "done"}
    /\ tasks = <<>>
    /\ tasks' = <<new_task(IF calc.phase = "single" THEN "manual" ELSE "recurring",
                           weekday_order[calc.target + 1], calc.delay)>>
    /\ UNCHANGED <<config_json, config, schedule_edit, manual_input, manual_status,
                   schedule_status, manual_tasks, diag, calc>>

DelayInit == CalcInit

DelayNext ==
    \/ ComputeSingle
    \/ ComputeDelay
    \/ SpawnComputed
    \/ \E i \in TaskIds : TaskSleep(i)
    \/ \E i \in TaskIds : TaskNotify(i)
    \/ \E i \in TaskIds : DismissWarning(i)
    \/ \E i \in TaskIds : TaskSleepPost(i)
    \/ \E i \in TaskIds : TaskShutdown(i)

DelaySpec == DelayInit /\ [][DelayNext]_vars

\* 1 when the clock reading has a sub-second part
Frac01(now) == IF now.frac THEN 1 ELSE 0

MaxDelay == 7 * 86400 + 86399

-----------------------------------------------------------------------------
(* The two places that parse a time text, each run once on any short text:  *)
(* schedule_manual_shutdown on the text of the input field, and             *)
(* activate_schedules on a config whose Monday entry is that text           *)

MaxTextLen == 5

TextChars == {"0", "2", "6", ":", " "}

\* every text of up to MaxTextLen characters
AcceptTexts == UNION {[1..n -> TextChars] : n \in 0..MaxTextLen}

\* a config.json with the text as the one entry of Monday
entry_config(text) == [d \in {"Monday"} |-> <<text>>]

AcceptInit ==
    /\ manual_input \in AcceptTexts
    /\ config_json = [ok |-> TRUE, schedule |-> entry_config(manual_input)]
    /\ config = load_config(config_json)
    /\ schedule_edit = default_schedule_edit(config)
    /\ manual_status = Status("kein", 0, <<>>)
    /\ schedule_status = ""
    /\ manual_tasks = <<>>
    /\ tasks = <<>>
    /\ diag = {}
    /\ calc = CalcIdle

\* "Shutdown manuell planen" on the text of the input field
AcceptManual ==
    /\ manual_status.kind = "kein"
    /\ \E now \in Nows :
         LET r == schedule_manual_shutdown(manual_input, now, manual_tasks, tasks)
         IN  /\ manual_status' = r.status
             /\ manual_tasks' = r.registry
             /\ tasks' = r.threads
    /\ UNCHANGED <<config_json, config, schedule_edit, manual_input,
                   schedule_status, diag, calc>>

\* activate_schedules on the config that holds the text
AcceptActivate ==
    /\ schedule_status = ""
    /\ \E now \in Nows :
         LET res == activate_schedules(config, now)
         IN  /\ \E ord \in Orderings(Spawned(res)) :
                    tasks' = spawn_all(tasks, res, ord)
             /\ diag' = Diagnostics(res)
    /\ schedule_status' = "aktiviert"
    /\ UNCHANGED <<config_json, config, schedule_edit, manual_input,
                   manual_status, manual_tasks, calc>>

AcceptNext == AcceptManual \/ AcceptActivate

AcceptSpec == AcceptInit /\ [][AcceptNext]_vars

\* exactly two digits, a colon and two digits, hour 0..23 and minute 0..59
IsHHMM(s) ==
    /\ Len(s) = 5
    /\ s[1] \in Digits /\ s[2] \in Digits
    /\ s[3] = ":"
    /\ s[4] \in Digits /\ s[5] \in Digits
    /\ 10 * DigitVal(s[1]) + DigitVal(s[2]) <= 23
    /\ 10 * DigitVal(s[4]) + DigitVal(s[5]) <= 59

\* activate_schedules took the text of Monday as a time
ActivateAccepted ==
    /\ trim(config["Monday"][1]) # <<>>
    /\ <<"Monday", "bad_time">> \notin diag

\* C17: schedule_manual_shutdown and activate_schedules accept a time text
\* exactly when it is two digits, a colon and two digits with hour 0..23
\* and minute 0..59 (white space around it set aside); any other text is
\* rejected and schedules nothing.
C17_AcceptedIffHHMM ==
    /\ manual_status.kind # "kein" =>
           /\ manual_status.kind = "geplant" <=> IsHHMM(trim(manual_input))
           /\ ~IsHHMM(trim(manual_input)) =>
                  manual_tasks = <<>> /\ \A i \in 1..Len(tasks) : tasks[i].kind # "manual"
    /\ schedule_status = "aktiviert" =>
           /\ ActivateAccepted <=> IsHHMM(trim(config["Monday"][1]))
           /\ ~IsHHMM(trim(config["Monday"][1])) =>
                  \A i \in 1..Len(tasks) : tasks[i].kind # "recurring"


-----------------------------------------------------------------------------

\* an entry that is inactive or holds a time of day NaiveTime takes
EmptyOrValid(times) ==
    \/ Len(times) = 0
    \/ times[1] = <<>>
    \/ parse_from_str(times[1]).ok

\* C18: after save_schedule the stored schedule has all seven weekdays and
\* every entry is empty or a valid time of day (hour 0..23, minute 0..59);
\* text of the editor that is no valid time, such as "25:00", is never
\* stored as an active entry.
C18_SavedEntriesEmptyOrValid ==
    [][SaveClick =>
          /\ \A i \in 1..7 : weekday_order[i] \in DOMAIN config'
          /\ \A d \in DOMAIN config' : EmptyOrValid(config'[d])
          /\ config_json'.ok /\ config_json'.schedule = config']_vars


-----------------------------------------------------------------------------

\* the thread has invoked show_notification in its current cycle
Warned(i) == i \in 1..Len(tasks) /\ tasks[i].pc = "boxed"

\* the thread is past shutdown_pc() of a cycle
PastShutdown(i) ==
    /\ i \in 1..Len(tasks)
    /\ \/ tasks[i].pc = "done"
       \/ tasks[i].pc = "start" /\ tasks[i].rearmed

\* C19: the warning is fire-and-forget: once a thread has invoked the
\* warning callback, the shutdown callback of that cycle follows after the
\* wait of 300 s, whether or not the user ever acknowledges the warning.
C19_WarningNeverHoldsShutdown ==
    \A i \in TaskIds : Warned(i) ~> PastShutdown(i)

\* a step that changes one thread leaves every other thread and the
\* registry alone, and new threads are left at the head of their closure
\* by the call that spawned them
C20_Independent ==
    /\ Len(tasks') >= Len(tasks)
    /\ \A i \in 1..Len(tasks) :
           tasks'[i] # tasks[i] =>
               /\ \A j \in 1..Len(tasks) : j # i => tasks'[j] = tasks[j]
               /\ Len(tasks') = Len(tasks)
               /\ manual_tasks' = manual_tasks
    /\ \A i \in (Len(tasks) + 1)..Len(tasks') :
           tasks'[i].pc = "start" /\ tasks'[i].trace = <<>>

\* C20: countdown tasks are independent and spawning is fire-and-forget:
\* the spawning call returns with the new thread at the head of its
\* closure, no thread's step touches or waits on another thread or the
\* registry, and with the threads scheduled fairly every spawned task
\* reaches its shutdown callback however the others and the caller run.
C20_EveryTaskReachesShutdown ==
    /\ [][C20_Independent]_vars
    /\ \A i \in TaskIds :
           (i \in 1..Len(tasks)) ~>
               (i \in 1..Len(tasks) /\
                   (Shutdowns(tasks[i].trace) >= 1 \/ tasks[i].rearmed))

====
